---- MODULE Spec2Model ----
(***************************************************************************)
(* Model of pymedimage/cluster.py: the ROI-driven prune/expand transforms, *)
(* feature-matrix assembly, the per-subject work unit DOICluster and its   *)
(* batch execution through worker_DOICluster.                              *)
(*                                                                         *)
(* Conventions.  A 3-D array is a function on voxel triples <<d, r, c>>    *)
(* (depth z, row y, column x), 0-based as in the source.  A frame of       *)
(* reference is [size |-> <<x, y, z>>, spacing |-> <<sx, sy, sz>>].        *)
(* Spacings are real numbers in the program; here they are counted in      *)
(* half units, so that the unit spacing (1, 1, 1) is <<2, 2, 2>> and       *)
(* spacings below one exist.  Python's None is the empty tuple, an object  *)
(* reference x is <<x>>.                                                   *)
(***************************************************************************)
EXTENDS Integers, Sequences, FiniteSets, TLC

\* ------------------------------------------------------------------ bounds
MaxVoxels == 4      \* voxels of a grid in the prune/expand round trip
MaxVal == 1         \* voxel intensities range over 0..MaxVal
MaxLen == 3         \* length of a feature_volumes list
MaxCalls == 2       \* calls of create_feature_matrix on the same objects
MaxClusters == 2    \* nclusters ranges over 1..MaxClusters
MaxDefs == 1        \* length of local_feature_defs
MaxRuns == 3        \* direct DOICluster runs on the subject
MaxCode == 40       \* status integers -MaxCode..MaxCode handed to the worker's mapping
MaxSubjects == 2    \* subjects of a cohort
Processes == 2      \* workers of the pool

\* --------------------------------------------------------------- constants
NaN == -99          \* stands for the float nan that np.nan_to_num replaces
fill_value_default == -1

unit_spacing == <<2, 2, 2>>

None == <<>>
Some(x) == <<x>>

Min(a, b) == IF a < b THEN a ELSE b
Product(t) == t[1] * t[2] * t[3]

\* ------------------------------------------------------ volumes and masks
\* the index set of an array whose frame of reference has the given size
Shape(size) == (0..(size[3] - 1)) \X (0..(size[2] - 1)) \X (0..(size[1] - 1))

\* frameofreference.size[::-1]: the (z, y, x) shape of a conformed array
ref_shape(frameofreference) ==
    <<frameofreference.size[3], frameofreference.size[2], frameofreference.size[1]>>

array_shape(volume) == ref_shape(volume.frameofreference)

\* position of voxel <<d, r, c>> in C (depth-row major) order, from 1
FlatIndex(size, p) == p[1] * (size[2] * size[1]) + p[2] * size[1] + p[3] + 1

\* the voxel at position k of the C order
Unravel(size, k) ==
    <<(k - 1) \div (size[2] * size[1]), ((k - 1) \div size[1]) % size[2], (k - 1) % size[1]>>

\* ROI.makeDenseMask(frameofreference): a dense mask on the requested grid
makeDenseMask(roi, frameofreference) ==
    [array |-> [p \in Shape(frameofreference.size) |->
                    IF p \in DOMAIN roi.mask THEN roi.mask[p] ELSE 0],
     frameofreference |-> frameofreference]

\* Volume.vectorize(): the array flattened in its native (C) order
vectorize(volume) ==
    [k \in 1..Product(volume.frameofreference.size) |->
        volume.array[Unravel(volume.frameofreference.size, k)]]

\* Volume.vectorize(roi): full grid length, fill value outside the mask
vectorize_roi(volume, roi) ==
    IF roi = None THEN vectorize(volume)
    ELSE LET dm == makeDenseMask(roi[1], volume.frameofreference)
         IN  [k \in 1..Product(volume.frameofreference.size) |->
                LET p == Unravel(volume.frameofreference.size, k)
                IN  IF dm.array[p] = 1 THEN volume.array[p] ELSE fill_value_default]

\* MaskableVolume().fromArray(vector, frameofreference): reshape to the grid
fromArray(vector, frameofreference) ==
    [frameofreference |-> frameofreference,
     array |-> [p \in Shape(frameofreference.size) |->
                    vector[FlatIndex(frameofreference.size, p)]],
     feature_label |-> 0]

\* ------------------------------------------------- create_pruned_vector
\* the voxels in the order of the nested loops "for d / for r / for c"
PruneOrderSwapped(size) ==
    [k \in 1..Product(size) |->
        <<(k - 1) % size[3], ((k - 1) \div size[3]) % size[2], (k - 1) \div (size[3] * size[2])>>]

PruneOrder(size) ==
    [k \in 1..Product(size) |->
        <<(k - 1) \div (size[2] * size[1]), ((k - 1) \div size[1]) % size[2], (k - 1) % size[1]>>]

RECURSIVE PruneLoop(_, _, _, _)
PruneLoop(volume, densemask, order, k) ==
    IF k > Len(order) THEN <<>>
    ELSE IF densemask.array[order[k]] = 1
         THEN <<volume.array[order[k]]>> \o PruneLoop(volume, densemask, order, k + 1)
         ELSE PruneLoop(volume, densemask, order, k + 1)

\* the (N, 1) column vector is kept as the sequence of its N rows
create_pruned_vector(volume, roi) ==
    IF roi = None THEN vectorize(volume)
    ELSE PruneLoop(volume, makeDenseMask(roi[1], volume.frameofreference),
                   PruneOrder(volume.frameofreference.size), 1)

\* ------------------------------------------------- expand_pruned_vector
ExpandOrder(size) ==
    [k \in 1..Product(size) |->
        <<(k - 1) \div (size[2] * size[1]), ((k - 1) \div size[1]) % size[2], (k - 1) % size[1]>>]

RECURSIVE ExpandLoop(_, _, _, _, _, _)
ExpandLoop(pruned_vector, densemask, order, fill_value, k, pruned_idx) ==
    IF k > Len(order) THEN <<>>
    ELSE IF densemask.array[order[k]] = 1
         THEN <<pruned_vector[pruned_idx + 1]>>
              \o ExpandLoop(pruned_vector, densemask, order, fill_value, k + 1, pruned_idx + 1)
         ELSE <<fill_value>>
              \o ExpandLoop(pruned_vector, densemask, order, fill_value, k + 1, pruned_idx)

\* TRUE when the walk reads past the end of pruned_vector (IndexError)
ExpandIndexError(pruned_vector, roi, frameofreference) ==
    /\ roi # None
    /\ Len(pruned_vector) <
         Cardinality({p \in Shape(frameofreference.size) :
                        makeDenseMask(roi[1], frameofreference).array[p] = 1})

expand_pruned_vector(pruned_vector, roi, frameofreference, fill_value) ==
    IF roi = None THEN fromArray(pruned_vector, frameofreference)
    ELSE fromArray(ExpandLoop(pruned_vector, makeDenseMask(roi[1], frameofreference),
                              ExpandOrder(frameofreference.size), fill_value, 1, 0),
                   frameofreference)


\* ------------------------------------------------------ Volume.conformTo
\* size of the volume resampled to the spacing of frameofreference and cropped
\* to its extent
conformed_size(volume, frameofreference) ==
    [i \in 1..3 |->
        Min((volume.frameofreference.size[i] * volume.frameofreference.spacing[i])
                \div frameofreference.spacing[i],
            frameofreference.size[i])]

\* nearest source voxel of voxel p of the resampled grid
nearest(volume, frameofreference, p) ==
    [j \in 1..3 |->
        Min((p[j] * frameofreference.spacing[4 - j]) \div volume.frameofreference.spacing[4 - j],
            volume.frameofreference.size[4 - j] - 1)]

\* the volume itself when it already lies on the grid, else a resampled copy
conformTo(volume, frameofreference) ==
    IF volume.frameofreference = frameofreference THEN volume
    ELSE LET size == conformed_size(volume, frameofreference)
         IN  [frameofreference |-> [size |-> size, spacing |-> frameofreference.spacing],
              array |-> [p \in Shape(size) |-> volume.array[nearest(volume, frameofreference, p)]],
              feature_label |-> volume.feature_label]

\* misc.generate_heatmap_label(volume): a tag taken from the volume's metadata
generate_heatmap_label(volume) == volume.feature_label

\* np.nan_to_num on a matrix kept as the sequence of its columns
nan_to_num(columns) ==
    [j \in 1..Len(columns) |->
        [k \in 1..Len(columns[j]) |-> IF columns[j][k] = NaN THEN 0 ELSE columns[j][k]]]

\* np.concatenate(list, axis=1) raises ValueError on an empty list and on
\* columns of different lengths
concatenate_raises(columns) ==
    \/ Len(columns) = 0
    \/ \E i, j \in 1..Len(columns) : Len(columns[i]) # Len(columns[j])

\* ------------------------------------------------ create_feature_matrix
\* `heap` maps object ids to volume objects; feature_volumes holds None or <<id>>.
\* The result is [ret, heap]: the call's outcome and the objects after the call.
Outcome(kind, exc, pruned, frameofreference, dense, labels) ==
    [kind |-> kind, exc |-> exc, pruned_feature_array |-> pruned,
     frameofreference |-> frameofreference, dense_feature_array |-> dense,
     feature_column_labels |-> labels]

ReturnNone == Outcome("None", "", <<>>, None, <<>>, <<>>)
Raise(exc) == Outcome("raise", exc, <<>>, None, <<>>, <<>>)

\* lines 124-130: the id of highest_res_volume after the scan of feature_volumes[1:]
RECURSIVE highest_res_scan_le(_, _, _, _)
highest_res_scan_le(heap, feature_volumes, k, best) ==
    IF k > Len(feature_volumes) THEN best
    ELSE IF Product(heap[feature_volumes[k][1]].frameofreference.spacing)
              <= Product(heap[best].frameofreference.spacing)
         THEN highest_res_scan_le(heap, feature_volumes, k + 1, feature_volumes[k][1])
         ELSE highest_res_scan_le(heap, feature_volumes, k + 1, best)

RECURSIVE highest_res_scan(_, _, _, _)
highest_res_scan(heap, feature_volumes, k, best) ==
    IF k > Len(feature_volumes) THEN best
    ELSE IF Product(heap[feature_volumes[k][1]].frameofreference.spacing)
              < Product(heap[best].frameofreference.spacing)
         THEN highest_res_scan(heap, feature_volumes, k + 1, feature_volumes[k][1])
         ELSE highest_res_scan(heap, feature_volumes, k + 1, best)

highest_res_volume(heap, feature_volumes) ==
    highest_res_scan(heap, feature_volumes, 2, feature_volumes[1][1])

\* lines 144-167: the accepted volumes, conformed, in list order
RECURSIVE accept_loop(_, _, _, _)
accept_loop(heap, feature_volumes, frameofreference, i) ==
    IF i > Len(feature_volumes) THEN <<>>
    ELSE IF feature_volumes[i] = None
         THEN accept_loop(heap, feature_volumes, frameofreference, i + 1)
         ELSE LET conformed_volume == conformTo(heap[feature_volumes[i][1]], frameofreference)
              IN  IF array_shape(conformed_volume) # ref_shape(frameofreference)
                  THEN accept_loop(heap, feature_volumes, frameofreference, i + 1)
                  ELSE <<conformed_volume>>
                       \o accept_loop(heap, feature_volumes, frameofreference, i + 1)

\* lines 136-186, once the reference frame is chosen
assemble(heap, feature_volumes, roi, frameofreference) ==
    LET accepted == accept_loop(heap, feature_volumes, frameofreference, 1)
        conformed_feature_list ==
            [j \in 1..Len(accepted) |-> create_pruned_vector(accepted[j], roi)]
        dense_feature_list ==
            [j \in 1..Len(accepted) |-> vectorize_roi(accepted[j], roi)]
        feature_column_labels ==
            [j \in 1..Len(accepted) |-> generate_heatmap_label(accepted[j])]
    IN  IF concatenate_raises(conformed_feature_list) \/ concatenate_raises(dense_feature_list)
        THEN Raise("ValueError")
        ELSE Outcome("tuple", "", nan_to_num(conformed_feature_list), Some(frameofreference),
                     nan_to_num(dense_feature_list), feature_column_labels)

create_feature_matrix(heap, feature_volumes, roi) ==
    IF Len(feature_volumes) <= 0 THEN [ret |-> ReturnNone, heap |-> heap]
    ELSE IF roi # None
    THEN [ret |-> assemble(heap, feature_volumes, roi, roi[1].frameofreference), heap |-> heap]
    ELSE IF \E k \in 1..Len(feature_volumes) : feature_volumes[k] = None
    THEN [ret |-> Raise("AttributeError"), heap |-> heap]
    ELSE LET best == highest_res_volume(heap, feature_volumes)
             heap1 == [heap EXCEPT ![best].frameofreference.spacing = unit_spacing]
         IN  [ret |-> assemble(heap1, feature_volumes, roi, heap1[best].frameofreference),
              heap |-> heap1]


\* ------------------------------------------------------- cluster_kmeans
\* feature_matrix is None or <<columns>>.  km stands for the assignment the
\* randomly initialised estimator settles on; labels lie in 0..nclusters-1.
\* sklearn rejects a matrix with fewer rows than clusters (ValueError).
nrows(columns) == IF Len(columns) = 0 THEN 0 ELSE Len(columns[1])

Returned(value) == [kind |-> "return", exc |-> "", value |-> value]
Raised(exc) == [kind |-> "raise", exc |-> exc, value |-> None]

cluster_kmeans(feature_matrix, nclusters, km) ==
    IF feature_matrix = None THEN Returned(None)
    ELSE IF nclusters <= 1 THEN Raised("ValueError")
    ELSE IF nrows(feature_matrix[1]) < nclusters THEN Raised("ValueError")
    ELSE Returned(Some([k \in 1..nrows(feature_matrix[1]) |-> km[k] % nclusters]))

\* ------------------------------------------- agglomerative strategies
\* lines 22-25: GLOBAL
scipy_hcluster_valid_methods ==
    {"ward", "single", "complete", "average", "weighted", "centroid", "median"}
scipy_hcluster_valid_metrics ==
    {"euclidean", "cityblock", "minkowski", "sqeuclidean", "seuclidean", "cosine"}

\* line 260 and line 266
valid_linkage == {"ward", "complete", "maximum", "average"}
valid_affinity == {"l1", "l2", "manhattan", "cosine", "euclidean"}

\* str.lower() on the strings a request is made with
lower(s) ==
    CASE s \in {"Ward", "WARD"} -> "ward"
      [] s \in {"Maximum", "MAXIMUM"} -> "maximum"
      [] s = "Complete" -> "complete"
      [] s = "Euclidean" -> "euclidean"
      [] s = "Cosine" -> "cosine"
      [] OTHER -> s

\* `a is b` on strings: false when the values differ; when they are equal it
\* is the interpreter that decides whether the result of lower() and the
\* literal are one object (identical)
is_same_object(a, b, identical) == a = b /\ identical

\* AgglomerativeClustering(...).fit_predict of lines 274-284: the library knows
\* the linkages ward, complete and average, and ward with euclidean only
AgglomerativeClustering(nclusters, affinity, linkage) ==
    IF linkage \notin {"ward", "complete", "average"} THEN Raised("ValueError")
    ELSE IF linkage = "ward" /\ affinity # "euclidean" THEN Raised("ValueError")
    ELSE Returned([nclusters |-> nclusters, metric |-> affinity, linkage |-> linkage])

\* sch.linkage and sch.fcluster of lines 339-340: ward, centroid and median
\* are defined for the euclidean metric only
sch_linkage(nclusters, method, metric) ==
    IF method \notin scipy_hcluster_valid_methods THEN Raised("ValueError")
    ELSE IF method \in {"ward", "centroid", "median"} /\ metric # "euclidean"
    THEN Raised("ValueError")
    ELSE Returned([nclusters |-> nclusters, metric |-> metric, linkage |-> method])

\* lines 259-272 and 322-335, the same in both strategies: validation of the
\* linkage, the 'maximum' alias, validation of the metric, the ward override;
\* gives the exception or the <<linkage, metric>> the library is called with
validated(linkage, metric, valid_linkages, valid_metrics, identical) ==
    IF linkage \notin valid_linkages THEN Raised("ValueError")
    ELSE IF metric \notin valid_metrics THEN Raised("ValueError")
    ELSE Returned(<<IF is_same_object(linkage, "maximum", identical) THEN "complete" ELSE linkage,
                    IF is_same_object(linkage, "ward", identical) THEN "euclidean" ELSE metric>>)

\* lines 229-285
cluster_hierarchical_sklearn(feature_matrix, nclusters, affinity, linkage, identical) ==
    IF feature_matrix = None THEN Raised("TypeError")
    ELSE IF validated(lower(linkage), lower(affinity), valid_linkage, valid_affinity,
                      identical).kind = "raise"
    THEN Raised("ValueError")
    ELSE AgglomerativeClustering(
             nclusters,
             validated(lower(linkage), lower(affinity), valid_linkage, valid_affinity,
                       identical).value[2],
             validated(lower(linkage), lower(affinity), valid_linkage, valid_affinity,
                       identical).value[1])

\* lines 287-341
cluster_hierarchical_scipy(feature_matrix, nclusters, metric, method, identical) ==
    IF feature_matrix = None THEN Raised("TypeError")
    ELSE IF validated(lower(method), lower(metric), scipy_hcluster_valid_methods,
                      scipy_hcluster_valid_metrics, identical).kind = "raise"
    THEN Raised("ValueError")
    ELSE sch_linkage(
             nclusters,
             validated(lower(method), lower(metric), scipy_hcluster_valid_methods,
                       scipy_hcluster_valid_metrics, identical).value[1],
             validated(lower(method), lower(metric), scipy_hcluster_valid_methods,
                       scipy_hcluster_valid_metrics, identical).value[2])

\* ----------------------------------------------------------- DOICluster
\* A subject (doi) is [image_vol, roi, feature_files]: what getImageVolume(),
\* getROI() and findFiles() deliver, None when there is nothing to deliver.
\* Its files are [clusters, features, writes]: the cluster pickle, the feature
\* pickle (None while absent) and how often each has been written.

\* line 365: every subject has output paths of its own
getClusterL1PicklePath_shared(doi) == 1
getClusterL1PicklePath(doi) == doi

\* lines 367-373: "skip", "recluster" or "fresh"
existing_cluster_ignores_recluster(exists, recluster) ==
    IF exists THEN "skip" ELSE "fresh"

existing_cluster(exists, recluster) ==
    IF exists THEN (IF ~recluster THEN "skip" ELSE "recluster") ELSE "fresh"

\* line 380
missing_image_only(image_vol, roi) == image_vol = None

missing_image_or_roi(image_vol, roi) == image_vol = None \/ roi = None

\* lines 375-397: code 1, or code 0 with the loaded feature_volume_list
load(doi, local_feature_defs) ==
    IF missing_image_or_roi(doi.image_vol, doi.roi)
    THEN [code |-> 1, feature_volume_list |-> <<>>]
    ELSE IF \E k \in 1..Len(local_feature_defs) : doi.feature_files[local_feature_defs[k]] = None
    THEN [code |-> 1, feature_volume_list |-> <<>>]
    ELSE [code |-> 0,
          feature_volume_list |->
              <<doi.image_vol[1]>> \o [k \in 1..Len(local_feature_defs) |->
                                          doi.feature_files[local_feature_defs[k]][1]]]

\* lines 399-405 and 412-413: the dense cluster volume and the feature bundle
compute(feature_volume_list, roi, nclusters, km) ==
    LET m == create_feature_matrix(feature_volume_list,
                                   [i \in 1..Len(feature_volume_list) |-> Some(i)], roi).ret
    IN  IF m.kind = "raise" THEN Raised(m.exc)
        ELSE IF m.kind = "None" THEN Raised("TypeError")
        ELSE LET c == cluster_kmeans(Some(m.pruned_feature_array), nclusters, km)
             IN  IF c.kind = "raise" THEN c
                 ELSE IF c.value = None THEN Raised("AttributeError")
                 ELSE IF ExpandIndexError(c.value[1], roi, m.frameofreference[1])
                 THEN Raised("IndexError")
                 ELSE Returned([dense_cluster_volume |->
                                    expand_pruned_vector(c.value[1], roi, m.frameofreference[1],
                                                         fill_value_default),
                                featpickle_dict |->
                                    [feature_matrix |-> m.dense_feature_array,
                                     labels |-> m.feature_column_labels]])

\* ------------------------------------------------------------- subjects
\* the volume object i on grid f; one voxel of the second holds nan
MkVolume(i, f) ==
    [frameofreference |-> f,
     array |-> [p \in Shape(f.size) |->
                  IF i = 2 /\ FlatIndex(f.size, p) = 1 THEN NaN
                  ELSE 10 * i + FlatIndex(f.size, p)],
     feature_label |-> i]

\* the grid of the subjects' ROIs and a grid that does not conform to it
F1 == [size |-> <<2, 1, 1>>, spacing |-> unit_spacing]
F2 == [size |-> <<1, 1, 1>>, spacing |-> unit_spacing]
FullROI == Some([frameofreference |-> F1, mask |-> [p \in Shape(F1.size) |-> 1]])
PartROI == Some([frameofreference |-> F1,
                 mask |-> [p \in Shape(F1.size) |-> IF p[3] = 0 THEN 1 ELSE 0]])
DoiFrames == {F1, F2}
DoiROIs == {FullROI, PartROI}
\* the rows a feature matrix can have: the voxels of the ROI grid
MaxRows == Cardinality(Shape(F1.size))

\* the subject whose image lies on grid im, with ROI r and feature files ff
Doi(im, r, ff) ==
    [image_vol |-> IF im = None THEN None ELSE Some(MkVolume(1, im[1])),
     roi |-> r,
     feature_files |-> [d \in DOMAIN ff |-> IF ff[d] = None THEN None
                                            ELSE Some(MkVolume(1 + d, ff[d][1]))]]

\* the subjects with feature files for n feature definitions
Dois(n) ==
    {Doi(im, r, ff) : im \in {None} \cup {Some(f) : f \in DoiFrames},
                      r \in {None} \cup DoiROIs,
                      ff \in [1..n -> {None} \cup {Some(f) : f \in DoiFrames}]}

\* what k-means can answer: a cluster for each row, at most as many as rows
KMs == [1..MaxRows -> 0..(MaxRows - 1)]

\* what the subjects with all their data load, with their ROIs
SubjectLoads ==
    UNION { {<<load(d, [k \in 1..n |-> k]).feature_volume_list, d.roi>> :
                d \in {x \in Dois(n) : load(x, [k \in 1..n |-> k]).code = 0}} :
            n \in 0..MaxDefs }

\* a function as an explicit table of its values
Tabulated(f) == f @@ <<>>

\* compute, tabulated over what the subjects load
computed ==
    Tabulated([in \in SubjectLoads, nclusters \in 1..MaxClusters, km \in KMs |->
                  compute(in[1], in[2], nclusters, km)])

\* lines 406-407
persist_clusters(file, dense_cluster_volume) ==
    [file EXCEPT !.clusters = Some(dense_cluster_volume), !.writes[1] = @ + 1]

\* lines 412-415
persist_features(file, featpickle_dict) ==
    [file EXCEPT !.features = Some(featpickle_dict), !.writes[2] = @ + 1]

\* lines 417-420
status_always_0(reclustered) == 0

status(reclustered) == IF reclustered THEN 11 ELSE 0

\* lines 399-420 once compute has given c: an exception leaves the call before
\* anything is written; otherwise both pickles are written and the status returned
persist_and_return(file, reclustered, c) ==
    IF c.kind = "raise" THEN [ret |-> c, file |-> file]
    ELSE [ret |-> Returned(status(reclustered)),
          file |-> persist_features(persist_clusters(file, c.value.dense_cluster_volume),
                                    c.value.featpickle_dict)]

\* the whole call: [ret, file], the returned code (or the exception) and the
\* subject's files after it
DOICluster(doi, file, local_feature_defs, nclusters, recluster, km) ==
    LET existing == existing_cluster(file.clusters # None, recluster)
    IN  IF existing = "skip" THEN [ret |-> Returned(10), file |-> file]
        ELSE LET l == load(doi, local_feature_defs)
             IN  IF l.code = 1 THEN [ret |-> Returned(1), file |-> file]
                 ELSE persist_and_return(
                          file, existing = "recluster",
                          compute(l.feature_volume_list, doi.roi, nclusters, km))

\* ---------------------------------------------------- worker_DOICluster
\* lines 429-440: the label of a status code, unknown codes become -1
result_of_code_passthrough(result_code) ==
    IF result_code = 0 THEN <<0, "success">>
    ELSE IF result_code = 1 THEN <<1, "missing data">>
    ELSE IF result_code = 10 THEN <<10, "skipped">>
    ELSE IF result_code = 11 THEN <<11, "recalc">>
    ELSE <<result_code, "unknown">>

result_of_code(result_code) ==
    IF result_code = 0 THEN <<0, "success">>
    ELSE IF result_code = 1 THEN <<1, "missing data">>
    ELSE IF result_code = 10 THEN <<10, "skipped">>
    ELSE IF result_code = 11 THEN <<11, "recalc">>
    ELSE <<-1, "unknown">>

WorkerResult(rc, doi) ==
    [kind |-> "return", result_code |-> rc[1], result_string |-> rc[2],
     job_time_string |-> "HH:MM:SS", doi |-> doi]

WorkerRaised(doi) ==
    [kind |-> "raise", result_code |-> 0, result_string |-> "", job_time_string |-> "", doi |-> doi]

\* lines 425-450: ret is what DOICluster did, a returned code or an exception
worker_no_except(ret, doi) ==
    IF ret.kind = "raise" THEN WorkerRaised(doi)
    ELSE WorkerResult(result_of_code(ret.value), doi)

worker_DOICluster(ret, doi) ==
    IF ret.kind = "raise" THEN WorkerResult(<<2, "exception">>, doi)
    ELSE WorkerResult(result_of_code(ret.value), doi)

\* ------------------------------------------------------------------ state
VARIABLES
    rt,         \* one prune/expand round trip: its inputs, results and position
    asm,        \* feature-matrix assembly: the volume objects, the call inputs, the results
    lbl,        \* one worker call on a unit that returns a given status or raises
    subjects,   \* the subjects' data, by subject number
    files,      \* the subjects' output files
    args,       \* local_feature_defs and, in a batch, nclusters
    runs,       \* the direct DOICluster runs made so far
    pool,       \* the batch: argmap, the workers' positions, the collected results
    clu         \* one call of a clustering strategy: its arguments and what it gave

vars == <<rt, asm, lbl, subjects, files, args, runs, pool, clu>>

RTIdle == [pc |-> "idle", volume |-> None, roi |-> None, fill_value |-> 0,
           pruned_vector |-> <<>>, expanded |-> None]
AsmIdle == [pc |-> "idle", heap |-> <<>>, heap0 |-> <<>>, feature_volumes |-> <<>>,
            roi |-> None, calls |-> <<>>]
LblIdle == [pc |-> "idle", ret |-> Returned(0), result |-> None]
CluIdle == [pc |-> "idle", feature_matrix |-> None, nclusters |-> 0, linkage |-> "",
            metric |-> "", identical |-> FALSE, strategy |-> "", ret |-> Returned(None)]
ArgsIdle == [local_feature_defs |-> <<>>, nclusters |-> 0]
PoolIdle == [pc |-> "idle", argmap |-> <<>>, next |-> 1, workers |-> <<>>, results |-> <<>>,
             files0 |-> <<>>, km |-> <<>>]

NoSubjects == subjects = <<>> /\ files = <<>> /\ args = ArgsIdle /\ runs = <<>> /\ pool = PoolIdle

\* ------------------------------------------- round trip (prune, expand)
Sizes(n) == {s \in (1..n) \X (1..n) \X (1..n) : Product(s) <= n}
FillValues == {fill_value_default, MaxVal + 1}

RTInput(s, a, m, fv) ==
    [pc |-> "start",
     volume |-> Some([frameofreference |-> [size |-> s, spacing |-> unit_spacing],
                      array |-> a, feature_label |-> 0]),
     roi |-> m, fill_value |-> fv, pruned_vector |-> <<>>, expanded |-> None]

RTMasks(s) ==
    {Some([frameofreference |-> [size |-> s, spacing |-> unit_spacing], mask |-> mm]) :
        mm \in [Shape(s) -> {0, 1}]}

InitRT ==
    /\ \E s \in Sizes(MaxVoxels) :
         \E a \in [Shape(s) -> 0..MaxVal], m \in {None} \cup RTMasks(s), fv \in FillValues :
            rt = RTInput(s, a, m, fv)
    /\ asm = AsmIdle /\ lbl = LblIdle /\ clu = CluIdle /\ NoSubjects

Prune ==
    /\ rt.pc = "start"
    /\ rt' = [rt EXCEPT !.pc = "pruned",
                        !.pruned_vector = create_pruned_vector(rt.volume[1], rt.roi)]
    /\ UNCHANGED <<asm, lbl, subjects, files, args, runs, pool, clu>>

Expand ==
    /\ rt.pc = "pruned"
    /\ rt' = IF ExpandIndexError(rt.pruned_vector, rt.roi, rt.volume[1].frameofreference)
             THEN [rt EXCEPT !.pc = "raised"]
             ELSE [rt EXCEPT !.pc = "expanded",
                             !.expanded = Some(expand_pruned_vector(rt.pruned_vector, rt.roi,
                                              rt.volume[1].frameofreference, rt.fill_value))]
    /\ UNCHANGED <<asm, lbl, subjects, files, args, runs, pool, clu>>

NextRT == Prune \/ Expand

SpecRT == InitRT /\ [][NextRT]_vars

\* ------------------------------------------------ assembly, called twice
AsmSizes == {<<1, 1, 1>>, <<2, 1, 1>>}
AsmSpacings == {<<1, 1, 1>>, <<1, 1, 2>>, unit_spacing, <<4, 4, 4>>}
AsmFrames == [size : AsmSizes, spacing : AsmSpacings]

AsmROIs ==
    {None} \cup UNION { {Some([frameofreference |-> [size |-> s, spacing |-> unit_spacing],
                               mask |-> mm]) : mm \in [Shape(s) -> {0, 1}]} : s \in AsmSizes }

\* a list entry is None or a reference to its own volume object
AsmInput(l, r) ==
    LET heap == [i \in 1..Len(l) |-> IF l[i] = None THEN None ELSE MkVolume(i, l[i][1])]
    IN  [pc |-> "ready", heap |-> heap, heap0 |-> heap,
         feature_volumes |-> [i \in 1..Len(l) |-> IF l[i] = None THEN None ELSE Some(i)],
         roi |-> r, calls |-> <<>>]

InitAsm ==
    /\ \E n \in 0..MaxLen :
         \E l \in [1..n -> {None} \cup {Some(f) : f \in AsmFrames}], r \in AsmROIs :
            asm = AsmInput(l, r)
    /\ rt = RTIdle /\ lbl = LblIdle /\ clu = CluIdle /\ NoSubjects

\* one call of create_feature_matrix(feature_volumes, roi) on the current objects
Assemble ==
    /\ asm.pc = "ready"
    /\ Len(asm.calls) < MaxCalls
    /\ LET r == create_feature_matrix(asm.heap, asm.feature_volumes, asm.roi)
       IN  asm' = [asm EXCEPT !.heap = r.heap, !.calls = Append(asm.calls, r.ret)]
    /\ UNCHANGED <<rt, lbl, subjects, files, args, runs, pool, clu>>

NextAsm == Assemble

SpecAsm == InitAsm /\ [][NextAsm]_vars

\* --------------------------------------------- direct runs of DOICluster
NoFile == [clusters |-> None, features |-> None, writes |-> <<0, 0>>]

\* the output of an earlier session
OldFile ==
    [clusters |-> Some(fromArray(<<0, 0>>, [size |-> <<2, 1, 1>>, spacing |-> unit_spacing])),
     features |-> Some([feature_matrix |-> <<>>, labels |-> <<>>]),
     writes |-> <<0, 0>>]

DataComplete(doi, local_feature_defs) ==
    /\ doi.image_vol # None
    /\ doi.roi # None
    /\ \A k \in 1..Len(local_feature_defs) : doi.feature_files[local_feature_defs[k]] # None

Init ==
    /\ \E n \in 0..MaxDefs, f \in {NoFile, OldFile} : \E d \in Dois(n) :
          /\ subjects = <<d>>
          /\ files = <<f>>
          /\ args = [local_feature_defs |-> [k \in 1..n |-> k], nclusters |-> 0]
    /\ runs = <<>>
    /\ pool = PoolIdle /\ rt = RTIdle /\ asm = AsmIdle /\ lbl = LblIdle /\ clu = CluIdle

\* DOICluster(doi, local_feature_defs, nclusters, recluster) called directly
Run ==
    /\ Len(subjects) = 1 /\ pool = PoolIdle
    /\ Len(runs) < MaxRuns
    /\ \E recluster \in BOOLEAN, nclusters \in 1..MaxClusters, km \in KMs :
          \E r \in {DOICluster(subjects[1], files[getClusterL1PicklePath(1)],
                              args.local_feature_defs, nclusters, recluster, km)} :
              /\ files' = [files EXCEPT ![getClusterL1PicklePath(1)] = r.file]
              /\ runs' = Append(runs, [recluster |-> recluster,
                                       before |-> files[1], ret |-> r.ret, after |-> r.file])
    /\ UNCHANGED <<rt, asm, lbl, subjects, args, pool, clu>>

Next == Run

Spec == Init /\ [][Next]_vars

\* ------------------------------------------ the worker's status mapping
InitLabel ==
    /\ \E r \in {Returned(c) : c \in (-MaxCode)..MaxCode} \cup {Raised("Exception")} :
          lbl = [pc |-> "called", ret |-> r, result |-> None]
    /\ rt = RTIdle /\ asm = AsmIdle /\ clu = CluIdle /\ NoSubjects

\* worker_DOICluster around a unit that returns lbl.ret.value or raises
WorkerMaps ==
    /\ lbl.pc = "called"
    /\ lbl' = [lbl EXCEPT !.pc = "done", !.result = Some(worker_DOICluster(lbl.ret, 1))]
    /\ UNCHANGED <<rt, asm, subjects, files, args, runs, pool, clu>>

NextLabel == WorkerMaps

SpecLabel == InitLabel /\ [][NextLabel]_vars

\* ------------------------------------------ the clustering strategies
\* what a request names its linkage (method) and its metric (affinity) with
LinkageRequests ==
    {"ward", "Ward", "WARD", "complete", "Complete", "average", "maximum", "Maximum",
     "MAXIMUM", "single", "centroid", "nearest"}
MetricRequests ==
    {"euclidean", "Euclidean", "cosine", "Cosine", "l1", "cityblock", "chebyshev"}

\* a feature matrix of one column and two rows, or the null result of an
\* empty assembly
MatrixInputs == {None, Some(<<<<0, 1>>>>)}

InitCluster ==
    /\ \E m \in MatrixInputs, n \in 1..MaxClusters, l \in LinkageRequests,
          a \in MetricRequests, i \in BOOLEAN :
          clu = [pc |-> "ready", feature_matrix |-> m, nclusters |-> n, linkage |-> l,
                 metric |-> a, identical |-> i, strategy |-> "", ret |-> Returned(None)]
    /\ rt = RTIdle /\ asm = AsmIdle /\ lbl = LblIdle /\ NoSubjects

\* cluster_kmeans(feature_matrix, nclusters)
CallKmeans ==
    /\ clu.pc = "ready"
    /\ \E km \in KMs :
          clu' = [clu EXCEPT !.pc = "done", !.strategy = "kmeans",
                             !.ret = cluster_kmeans(clu.feature_matrix, clu.nclusters, km)]
    /\ UNCHANGED <<rt, asm, lbl, subjects, files, args, runs, pool>>

\* cluster_hierarchical_sklearn(feature_matrix, nclusters, affinity, linkage)
CallSklearn ==
    /\ clu.pc = "ready"
    /\ clu' = [clu EXCEPT !.pc = "done", !.strategy = "sklearn",
                          !.ret = cluster_hierarchical_sklearn(
                                      clu.feature_matrix, clu.nclusters, clu.metric,
                                      clu.linkage, clu.identical)]
    /\ UNCHANGED <<rt, asm, lbl, subjects, files, args, runs, pool>>

\* cluster_hierarchical_scipy(feature_matrix, nclusters, metric, method)
CallScipy ==
    /\ clu.pc = "ready"
    /\ clu' = [clu EXCEPT !.pc = "done", !.strategy = "scipy",
                          !.ret = cluster_hierarchical_scipy(
                                      clu.feature_matrix, clu.nclusters, clu.metric,
                                      clu.linkage, clu.identical)]
    /\ UNCHANGED <<rt, asm, lbl, subjects, files, args, runs, pool>>

NextCluster == CallKmeans \/ CallSklearn \/ CallScipy

SpecCluster == InitCluster /\ [][NextCluster]_vars

\* ------------------------------------------------------------ the batch
\* subjects of a cohort: complete; without image; with volumes that do not
\* conform to the ROI grid
CohortDois ==
    {Doi(Some(F1), FullROI, [d \in 1..MaxDefs |-> Some(F1)]),
     Doi(None, FullROI, [d \in 1..MaxDefs |-> Some(F1)]),
     Doi(Some(F2), FullROI, [d \in 1..MaxDefs |-> Some(F2)])}

WorkerIdle == [pc |-> "idle", doi |-> 0, reclustered |-> FALSE, feature_volume_list |-> <<>>,
               out |-> None, ret |-> Returned(0)]

\* the outputs an earlier session left when it got through the first k subjects
FilesAfter(n, k) == [i \in 1..n |-> IF i <= k THEN OldFile ELSE NoFile]

\* multiprocessDOICluster(doi_list, feature_defs, nclusters, processes): the
\* argmap holds one (doi, feature_defs, nclusters) triple per subject
InitBatch ==
    /\ \E n \in 1..MaxSubjects :
         \E ds \in [1..n -> CohortDois], fs \in {FilesAfter(n, k) : k \in 0..n},
            nclusters \in 1..MaxClusters :
            /\ subjects = ds
            /\ files = fs
            /\ args = [local_feature_defs |-> [k \in 1..MaxDefs |-> k], nclusters |-> nclusters]
            /\ pool = [pc |-> "running", argmap |-> [i \in 1..n |-> i], next |-> 1,
                       workers |-> [w \in 1..Processes |-> WorkerIdle], results |-> <<>>,
                       files0 |-> fs, km |-> [i \in 1..n |-> [k \in 1..MaxRows |-> 0]]]
    /\ runs = <<>>
    /\ rt = RTIdle /\ asm = AsmIdle /\ lbl = LblIdle /\ clu = CluIdle

OtherVars == <<rt, asm, lbl, subjects, args, runs, clu>>

\* the manager hands the next triple of the argmap to an idle worker; the
\* workers are interchangeable, the first idle one takes it
Dispatch(w) ==
    /\ pool.pc = "running"
    /\ pool.workers[w].pc = "idle"
    /\ \A v \in 1..(w - 1) : pool.workers[v].pc # "idle"
    /\ pool.next <= Len(pool.argmap)
    /\ pool' = [pool EXCEPT !.next = @ + 1,
                            !.workers[w] = [WorkerIdle EXCEPT !.pc = "called",
                                                            !.doi = pool.argmap[pool.next]]]
    /\ UNCHANGED <<files, OtherVars>>

\* lines 361-397 under recluster=True (line 427): the check for an existing
\* cluster and the load of the subject's volumes
WorkerLoad(w) ==
    /\ pool.pc = "running"
    /\ pool.workers[w].pc = "called"
    /\ LET doi == pool.workers[w].doi
           existing == existing_cluster(files[getClusterL1PicklePath(doi)].clusters # None, TRUE)
           l == load(subjects[doi], args.local_feature_defs)
       IN  pool' = [pool EXCEPT !.workers[w] =
                      IF existing = "skip" THEN [@ EXCEPT !.pc = "returning", !.ret = Returned(10)]
                      ELSE IF l.code = 1 THEN [@ EXCEPT !.pc = "returning", !.ret = Returned(1)]
                      ELSE [@ EXCEPT !.pc = "loaded", !.reclustered = (existing = "recluster"),
                                     !.feature_volume_list = l.feature_volume_list]]
    /\ UNCHANGED <<files, OtherVars>>

\* lines 399-405: assembly, clustering and expansion, in the worker's memory
WorkerCompute(w) ==
    /\ pool.pc = "running"
    /\ pool.workers[w].pc = "loaded"
    /\ \E km \in KMs :
          LET doi == pool.workers[w].doi
              c == computed[<<pool.workers[w].feature_volume_list, subjects[doi].roi>>,
                            args.nclusters, km]
          IN  pool' = [pool EXCEPT !.km[doi] = km,
                                   !.workers[w] =
                                      IF c.kind = "raise"
                                      THEN [@ EXCEPT !.pc = "returning", !.ret = c]
                                      ELSE [@ EXCEPT !.pc = "computed", !.out = Some(c.value)]]
    /\ UNCHANGED <<files, OtherVars>>

\* lines 406-407: the cluster pickle is written
WorkerPersistClusters(w) ==
    /\ pool.pc = "running"
    /\ pool.workers[w].pc = "computed"
    /\ LET path == getClusterL1PicklePath(pool.workers[w].doi)
       IN  files' = [files EXCEPT ![path] =
                        persist_clusters(@, pool.workers[w].out[1].dense_cluster_volume)]
    /\ pool' = [pool EXCEPT !.workers[w].pc = "clusters_written"]
    /\ UNCHANGED OtherVars

\* lines 412-420: the feature pickle is written and the status returned
WorkerPersistFeatures(w) ==
    /\ pool.pc = "running"
    /\ pool.workers[w].pc = "clusters_written"
    /\ LET path == getClusterL1PicklePath(pool.workers[w].doi)
       IN  files' = [files EXCEPT ![path] =
                        persist_features(@, pool.workers[w].out[1].featpickle_dict)]
    /\ pool' = [pool EXCEPT !.workers[w].pc = "returning",
                            !.workers[w].ret = Returned(status(pool.workers[w].reclustered))]
    /\ UNCHANGED OtherVars

\* lines 429-450: the worker's result reaches the manager; an exception that
\* leaves the worker ends the batch
WorkerReturn(w) ==
    /\ pool.pc = "running"
    /\ pool.workers[w].pc = "returning"
    /\ LET r == worker_DOICluster(pool.workers[w].ret, pool.workers[w].doi)
       IN  pool' = IF r.kind = "raise"
                   THEN [pool EXCEPT !.pc = "crashed", !.workers[w] = WorkerIdle]
                   ELSE [pool EXCEPT !.results = Append(@, r), !.workers[w] = WorkerIdle]
    /\ UNCHANGED <<files, OtherVars>>

WorkerStep(w) ==
    \/ WorkerLoad(w)
    \/ WorkerCompute(w)
    \/ WorkerPersistClusters(w)
    \/ WorkerPersistFeatures(w)
    \/ WorkerReturn(w)

NextBatch == \E w \in 1..Processes : Dispatch(w) \/ WorkerStep(w)

SpecBatch == InitBatch /\ [][NextBatch]_vars

\* the worker processes and the manager keep running: while a step of the
\* batch is possible, one is taken
FairBatch == InitBatch /\ [][NextBatch]_vars /\ WF_vars(NextBatch)

BatchDone ==
    /\ pool.pc = "running"
    /\ pool.next > Len(pool.argmap)
    /\ \A w \in 1..Processes : pool.workers[w].pc = "idle"

\* C3: round-trip law.  After prune and expand with a mask, the expanded volume
\* equals the volume at every voxel whose dense-mask entry is 1 and the fill
\* value elsewhere, and the pruned vector has one element per mask-true voxel.
MaskTrue(r) ==
    {p \in Shape(r.volume[1].frameofreference.size) :
        makeDenseMask(r.roi[1], r.volume[1].frameofreference).array[p] = 1}

C3_RoundTrip ==
    /\ (rt.pc \in {"pruned", "expanded"} /\ rt.roi # None)
          => Len(rt.pruned_vector) = Cardinality(MaskTrue(rt))
    /\ (rt.pc = "expanded" /\ rt.roi # None)
          => /\ rt.expanded[1].frameofreference = rt.volume[1].frameofreference
             /\ \A p \in Shape(rt.volume[1].frameofreference.size) :
                   rt.expanded[1].array[p] =
                      IF p \in MaskTrue(rt) THEN rt.volume[1].array[p] ELSE rt.fill_value

\* a partial mask on a grid with two non-trivial axes, where the (x, y, z) and
\* (z, y, x) walks differ, has been pruned and expanded
C3_Witness ==
    /\ rt.pc = "expanded"
    /\ rt.roi # None
    /\ rt.volume[1].frameofreference.size = <<2, 1, 2>>
    /\ Cardinality(MaskTrue(rt)) = 2
    /\ rt.volume[1].array[<<0, 0, 1>>] # rt.volume[1].array[<<1, 0, 0>>]
    /\ rt.roi[1].mask[<<0, 0, 1>>] = 1

\* ----------------------------------------------- statements on assembly
Present(a) == {i \in 1..Len(a.feature_volumes) : a.feature_volumes[i] # None}

\* the present volume with the smallest spacing product, the first one on a tie
SmallestSpacing(heap, present) ==
    CHOOSE i \in present :
        \A j \in present :
            \/ Product(heap[i].frameofreference.spacing) < Product(heap[j].frameofreference.spacing)
            \/ Product(heap[i].frameofreference.spacing) = Product(heap[j].frameofreference.spacing)
               /\ i <= j

\* the reference grid the first call is meant to use
IntendedFrame(a) ==
    IF a.roi # None THEN a.roi[1].frameofreference
    ELSE [size |-> a.heap0[SmallestSpacing(a.heap0, Present(a))].frameofreference.size,
          spacing |-> unit_spacing]

\* the list positions the first call is meant to accept
Acceptable(a) ==
    IF Present(a) = {} THEN {}
    ELSE {i \in Present(a) :
            LET f == IntendedFrame(a)
                h == IF a.roi # None THEN a.heap0[i]
                     ELSE [a.heap0[i] EXCEPT !.frameofreference.spacing =
                             IF i = SmallestSpacing(a.heap0, Present(a)) THEN unit_spacing ELSE @]
            IN  array_shape(conformTo(h, f)) = ref_shape(f)}

Called == Len(asm.calls) >= 1

\* C7: two calls in a row with the same volume objects and the same ROI
\* (or none) return the same reference grid, matrices and labels.
C7_Deterministic == Len(asm.calls) >= 2 => asm.calls[2] = asm.calls[1]

\* C8: with an ROI its frame is the reference; without one the reference is the
\* grid of the volume with the smallest spacing product (the first on a tie) at
\* unit spacing, and the override leaves a volume already at unit spacing as it was.
C8_ReferenceGrid ==
    (Called /\ asm.calls[1].kind = "tuple") =>
        /\ asm.roi # None => asm.calls[1].frameofreference = Some(asm.roi[1].frameofreference)
        /\ asm.roi = None =>
              LET best == SmallestSpacing(asm.heap0, Present(asm))
              IN  /\ asm.calls[1].frameofreference[1].size = asm.heap0[best].frameofreference.size
                  /\ asm.calls[1].frameofreference[1].spacing = unit_spacing
                  /\ asm.heap0[best].frameofreference.spacing = unit_spacing
                        => asm.heap = asm.heap0

\* without an ROI the finer of two volumes, listed second, gave the reference grid
C8_Witness ==
    /\ Called /\ asm.calls[1].kind = "tuple" /\ asm.roi = None
    /\ Len(asm.feature_volumes) = 2
    /\ asm.heap0[1].frameofreference = [size |-> <<1, 1, 1>>, spacing |-> <<4, 4, 4>>]
    /\ asm.heap0[2].frameofreference = [size |-> <<2, 1, 1>>, spacing |-> unit_spacing]
    /\ asm.calls[1].frameofreference[1].size = <<2, 1, 1>>

\* on a tie the first of the tied volumes gave the reference grid
C8_WitnessTie ==
    /\ Called /\ asm.calls[1].kind = "tuple" /\ asm.roi = None
    /\ Len(asm.feature_volumes) = 2
    /\ asm.heap0[1].frameofreference = [size |-> <<1, 1, 1>>, spacing |-> unit_spacing]
    /\ asm.heap0[2].frameofreference = [size |-> <<2, 1, 1>>, spacing |-> unit_spacing]
    /\ asm.calls[1].frameofreference[1].size = <<1, 1, 1>>

\* C9: drop-and-continue.  A non-empty list with at least one acceptable volume,
\* with or without an ROI, is assembled without raising, and the pruned matrix,
\* the dense matrix and the labels have one column per accepted volume, in
\* input order; None entries and mismatched volumes are left out.
C9_DropAndContinue ==
    (Called /\ Acceptable(asm) # {}) =>
        /\ asm.calls[1].kind = "tuple"
        /\ Len(asm.calls[1].pruned_feature_array) = Cardinality(Acceptable(asm))
        /\ Len(asm.calls[1].dense_feature_array) = Cardinality(Acceptable(asm))
        /\ Len(asm.calls[1].feature_column_labels) = Cardinality(Acceptable(asm))
        /\ {asm.calls[1].feature_column_labels[j] :
               j \in 1..Len(asm.calls[1].feature_column_labels)} = Acceptable(asm)
        /\ \A j, k \in 1..Len(asm.calls[1].feature_column_labels) :
               j < k => asm.calls[1].feature_column_labels[j] < asm.calls[1].feature_column_labels[k]

\* C9 with an ROI only (the part of the claim the code keeps)
C9_WithROI == asm.roi # None => C9_DropAndContinue

\* C10: with no usable volume (empty list, or every entry None or dropped) the
\* call returns the null result and does not raise.
C10_EmptyInput ==
    (Called /\ Acceptable(asm) = {}) => asm.calls[1].kind = "None"

\* C10 for the empty list alone
C10_EmptyList ==
    (Called /\ Len(asm.feature_volumes) = 0) => asm.calls[1].kind = "None"

\* ------------------------------------------- statements on direct runs
Existed(r) == r.before.clusters # None
ReturnedCode(r, c) == r.ret.kind = "return" /\ r.ret.value = c
\* the run wrote the cluster output and then the feature bundle, once each
WroteOutput(r) ==
    /\ r.after.clusters # None /\ r.after.features # None
    /\ r.after.writes = <<r.before.writes[1] + 1, r.before.writes[2] + 1>>

UnitAlone(s) ==
    DOICluster(subjects[s], pool.files0[s], args.local_feature_defs, args.nclusters,
               TRUE, pool.km[s])

ResultsOf(s) == {i \in 1..Len(pool.results) : pool.results[i].doi = s}

OneResultEach ==
    /\ Len(pool.results) = Len(pool.argmap)
    /\ \A s \in 1..Len(pool.argmap) : Cardinality(ResultsOf(s)) = 1

\* C2: an exception raised at any step of the unit is turned by the worker into
\* the result (2, 'exception', elapsed time, subject); the worker never raises,
\* the other subjects get their normal results, and a finished batch holds one
\* result per submitted subject.
C2_FaultIsolation ==
    /\ pool.pc # "crashed"
    /\ \A i \in 1..Len(pool.results) :
          LET r == pool.results[i]
              u == UnitAlone(r.doi).ret
          IN  /\ r.kind = "return"
              /\ u.kind = "raise" => r = WorkerResult(<<2, "exception">>, r.doi)
              /\ u.kind = "return" => /\ r.result_code \in {0, 1, 10, 11}
                                      /\ r.result_code = u.value
    /\ BatchDone => OneResultEach

\* a finished batch of two subjects: one raised in the unit, the other succeeded
C2_Witness ==
    /\ BatchDone
    /\ Len(pool.argmap) = 2
    /\ \E i, j \in 1..Len(pool.results) :
          /\ pool.results[i].result_code = 2 /\ pool.results[i].result_string = "exception"
          /\ UnitAlone(pool.results[i].doi).ret.kind = "raise"
          /\ pool.results[j].result_code = 0 /\ pool.results[j].result_string = "success"

\* C5: the worker reports 0, 1, 10, 11 with the labels 'success', 'missing data',
\* 'skipped', 'recalc', every other integer as (-1, 'unknown'), an exception as
\* (2, 'exception'): a result's code is one of 0, 1, 10, 11, 2, -1 and its label
\* is the one paired with the code.
C5_StatusLabels ==
    lbl.pc = "done" =>
        LET r == lbl.result[1]
        IN  /\ r.kind = "return"
            /\ r.result_code \in {0, 1, 10, 11, 2, -1}
            /\ r.result_string =
                  (CASE r.result_code = 0 -> "success"
                     [] r.result_code = 1 -> "missing data"
                     [] r.result_code = 10 -> "skipped"
                     [] r.result_code = 11 -> "recalc"
                     [] r.result_code = 2 -> "exception"
                     [] OTHER -> "unknown")
            /\ lbl.ret.kind = "return" =>
                  r.result_code = IF lbl.ret.value \in {0, 1, 10, 11} THEN lbl.ret.value ELSE -1
            /\ lbl.ret.kind = "raise" => r.result_code = 2

\* a unit that returned the integer 2 has been reported as (-1, 'unknown')
C5_Witness ==
    /\ lbl.pc = "done"
    /\ lbl.ret = Returned(2)
    /\ lbl.result[1].result_code = -1 /\ lbl.result[1].result_string = "unknown"

\* a subject's result and files are those of its run alone
SameAsAlone(s) ==
    /\ \A i \in ResultsOf(s) :
          pool.results[i] = worker_DOICluster(UnitAlone(s).ret, s)
    /\ files[s] = UnitAlone(s).file

\* C6: under every interleaving of the workers the batch completes, with one
\* result per submitted subject, and each subject's result and output files
\* are those of its run alone.
C6_BatchCompletes ==
    <>(BatchDone /\ OneResultEach /\ \A s \in 1..Len(pool.argmap) : SameAsAlone(s))

\* both subjects of a cohort were past their first write at the same time
C6_WitnessOverlap ==
    /\ Len(pool.argmap) = 2
    /\ pool.workers[1].pc = "clusters_written" /\ pool.workers[2].pc = "clusters_written"

\* a finished batch whose second subject completed first, both with outputs
C6_Witness ==
    /\ BatchDone
    /\ Len(pool.results) = 2
    /\ pool.results[1].doi = 2 /\ pool.results[2].doi = 1
    /\ pool.results[1].result_code \in {0, 11} /\ pool.results[2].result_code \in {0, 11}
    /\ files[1].writes = <<1, 1>> /\ files[2].writes = <<1, 1>>

\* ------------------------------------ statements on clustering strategies
IsWard(s) == s \in {"ward", "Ward", "WARD"}
IsMaximum(s) == s \in {"maximum", "Maximum", "MAXIMUM"}
IsEuclidean(s) == s \in {"euclidean", "Euclidean"}

\* a call of an agglomerative strategy on a proper matrix has ended
Agglomerated ==
    /\ clu.pc = "done"
    /\ clu.strategy \in {"sklearn", "scipy"}
    /\ clu.feature_matrix # None

\* the metrics the called strategy accepts, in the letter cases of the requests
ValidMetricRequests ==
    IF clu.strategy = "sklearn"
    THEN {"l1", "l2", "manhattan", "cosine", "Cosine", "euclidean", "Euclidean"}
    ELSE {"euclidean", "Euclidean", "cityblock", "minkowski", "sqeuclidean", "seuclidean",
          "cosine", "Cosine"}

\* C11: in both agglomerative strategies a request for ward linkage, in any
\* letter case and with any metric, does not fail and is clustered with the
\* euclidean metric; a request for another linkage with a metric outside the
\* valid set raises ValueError.
C11_WardForcesEuclidean ==
    Agglomerated =>
        /\ IsWard(clu.linkage) =>
              clu.ret.kind = "return" /\ clu.ret.value.metric = "euclidean"
        /\ (~IsWard(clu.linkage) /\ clu.metric \notin ValidMetricRequests) =>
              clu.ret = Raised("ValueError")

\* the second half of C11 alone: it holds
C11_InvalidMetricRejected ==
    (Agglomerated /\ ~IsWard(clu.linkage) /\ clu.metric \notin ValidMetricRequests) =>
        clu.ret = Raised("ValueError")

\* C12: each of the three strategies raises TypeError and returns no value
\* when its input is not a matrix, whatever the other parameters are.
C12_TypeMismatch ==
    (clu.pc = "done" /\ clu.feature_matrix = None) => clu.ret = Raised("TypeError")

\* C12 for the two agglomerative strategies alone: it holds
C12_Agglomerative ==
    (clu.pc = "done" /\ clu.feature_matrix = None /\ clu.strategy # "kmeans") =>
        clu.ret = Raised("TypeError")

\* C13: in both agglomerative strategies a request for the linkage 'maximum',
\* in any letter case, with the euclidean metric is accepted and the
\* clustering is run with 'complete'.
C13_MaximumAlias ==
    (Agglomerated /\ IsMaximum(clu.linkage) /\ IsEuclidean(clu.metric)) =>
        clu.ret.kind = "return" /\ clu.ret.value.linkage = "complete"

\* C14: after any call of create_feature_matrix, with or without an ROI, every
\* input volume and its frame of reference are as they were before the call.
C14_InputsImmutable == Called => asm.heap = asm.heap0

\* C14 for calls with an ROI: it holds
C14_WithROI == (Called /\ asm.roi # None) => asm.heap = asm.heap0

\* --------------------------------------- statements on a batch's codes
\* subject s has its image, its ROI and every requested feature file
CompleteSubject(s) == DataComplete(subjects[s], args.local_feature_defs)

\* both outputs of subject s have been written, once each, in this batch
BothWritten(s) ==
    /\ files[s].clusters # None /\ files[s].features # None
    /\ files[s].writes = <<1, 1>>

\* the cluster output is written before the provenance bundle, and both are
\* written before the unit returns 0 or 11
WrittenInOrder ==
    /\ \A s \in 1..Len(files) : files[s].writes[2] <= files[s].writes[1]
    /\ \A w \in 1..Len(pool.workers) :
          (pool.workers[w].pc = "returning" /\ pool.workers[w].ret \in {Returned(0), Returned(11)})
              => BothWritten(pool.workers[w].doi)

\* C15 as stated: every result of a batch has a code in {0, 1, 11, 2}, and a
\* subject with complete data is reported 11 when its output existed before
\* the run and 0 otherwise, with both outputs written, cluster output first.
C15_BatchCodesAsStated ==
    /\ WrittenInOrder
    /\ \A i \in 1..Len(pool.results) :
          LET r == pool.results[i]
          IN  /\ r.result_code \in {0, 1, 11, 2}
              /\ CompleteSubject(r.doi) =>
                    /\ r.result_code = IF pool.files0[r.doi].clusters # None THEN 11 ELSE 0
                    /\ BothWritten(r.doi)

\* C15, amended: every result of a batch has a code in {0, 1, 11, 2}; a subject
\* with complete data is reported 2 when its unit raises, and otherwise 11 when
\* its output existed before the run and 0 when it did not, with both outputs
\* written, cluster output first, before the code is returned.
C15_BatchCodes ==
    /\ WrittenInOrder
    /\ \A i \in 1..Len(pool.results) :
          LET r == pool.results[i]
          IN  /\ r.result_code \in {0, 1, 11, 2}
              /\ CompleteSubject(r.doi) =>
                    /\ r.result_code # 1
                    /\ r.result_code = 2 <=> UnitAlone(r.doi).ret.kind = "raise"
                    /\ r.result_code # 2 =>
                          /\ r.result_code =
                                IF pool.files0[r.doi].clusters # None THEN 11 ELSE 0
                          /\ BothWritten(r.doi)

\* a finished batch of two complete subjects, the first with an old output:
\* reported 11 and 0, both with their outputs written
C15_Witness ==
    /\ BatchDone
    /\ Len(pool.argmap) = 2
    /\ CompleteSubject(1) /\ CompleteSubject(2)
    /\ pool.files0[1].clusters # None /\ pool.files0[2].clusters = None
    /\ \E i, j \in 1..Len(pool.results) :
          /\ pool.results[i].doi = 1 /\ pool.results[i].result_code = 11
          /\ pool.results[j].doi = 2 /\ pool.results[j].result_code = 0
    /\ BothWritten(1) /\ BothWritten(2)

====
